---- MODULE Spec2Model ----
(***************************************************************************)
(* A model of the Mahjong discard engine (class MahjongAI) as it appears   *)
(* twice in the repository: src/mahjong_ai.py (used by mahjong_gui.py and  *)
(* MahjongWeightTrainer.py) and src/major.py (self-contained, with its own *)
(* GUI).  The variable impl says which of the two classes was              *)
(* instantiated; every operator below follows the code of that class.      *)
(*                                                                         *)
(* Numbers.  The weights are Python floats.  They are modelled in fixed    *)
(* point: the integer x stands for x / Scale, a product is rounded to the  *)
(* nearest multiple of 1 / Scale.  Comparisons, clamps and sums are exact. *)
(*                                                                         *)
(* Tiles.  The string f"{num}{type}" is the pair <<num, type>>; the suits  *)
(* 万, 条, 筒 are written "wan", "tiao", "tong".  None and the empty       *)
(* string (both falsy in Python) are the pair NoTile.                      *)
(*                                                                         *)
(* Dictionaries keyed by numbers.  position_weights and be_ponged have int *)
(* keys in memory and string keys in JSON, so a key is IntKey(n) or        *)
(* StrKey(n) and a dictionary is a function on a set of such keys.         *)
(*                                                                         *)
(* Specifications.  Spec: any calls of the public methods on an engine     *)
(* that started with no snapshot or with its own.  SpecSnapshot: the same  *)
(* calls on an engine that started over a snapshot written by somebody     *)
(* else.  SpecGui: the buttons of the window.  SpecTrainer: the loop of    *)
(* MahjongWeightTrainer.train_weights.                                     *)
(***************************************************************************)
EXTENDS Integers, Sequences, FiniteSets, TLC

\* ------------------------------------------------------------------ bounds
\* calls of the engine's public methods per behaviour
MaxSteps == 3
\* button clicks per behaviour of the window
MaxClicks == 5
\* games in the training data file
MaxGames == 3

\* ------------------------------------------------------------- fixed point
Scale == 10 * 10 * 10

\* the float n / d
FP(n, d) == (n * Scale) \div d

\* x * (p / 10), rounded to the nearest representable value
MulF(x, p) == (x * p + 5) \div 10

\* a * b for two scaled numbers
Prod(a, b) == (a * b + (Scale \div 2)) \div Scale

Max2(a, b) == IF a >= b THEN a ELSE b
Min2(a, b) == IF a <= b THEN a ELSE b

\* max(lo, min(x, hi))
Clamp(lo, x, hi) == Max2(lo, Min2(x, hi))

\* ------------------------------------------------------------------- tiles
tile_types == <<"wan", "tiao", "tong">>

TileTypes == {tile_types[i] : i \in DOMAIN tile_types}

\* f"{num}{type}"
Tile(num, type) == <<num, type>>

\* int(tile[:-1]) and tile[-1]
Num(tile) == tile[1]
Type(tile) == tile[2]

\* the keys of tile_weights: one per distinct tile
AllTiles == {Tile(num, type) : num \in 1..9, type \in TileTypes}

\* None or "" : the falsy values new_tile and last_discarded_tile take
NoTile == <<0, "">>

\* list.count(x) and `x in list`
Count(list, x) == Cardinality({i \in DOMAIN list : list[i] = x})
In(list, x) == \E i \in DOMAIN list : list[i] = x

\* list.remove(x): the first occurrence goes
Remove(list, x) ==
  LET i == CHOOSE k \in DOMAIN list :
             list[k] = x /\ \A j \in 1..(k - 1) : list[j] # x
  IN  [k \in 1..(Len(list) - 1) |-> IF k < i THEN list[k] ELSE list[k + 1]]

\* ------------------------------------------------------------ dictionaries
IntKey(n) == <<"int", n>>
StrKey(n) == <<"str", n>>

\* dict.get(key, 0)
Get(dict, key) == IF key \in DOMAIN dict THEN dict[key] ELSE 0

\* dict[key] = value
Put(dict, key, value) ==
  [k \in DOMAIN dict \cup {key} |-> IF k = key THEN value ELSE dict[k]]

\* json.dump followed by json.load of a dictionary: every key becomes its
\* string; an int key n and a string key "n" collide, and the one inserted
\* last wins (string keys come from a load, int keys are inserted after it)
JsonKeys(dict) ==
  [k \in {StrKey(key[2]) : key \in DOMAIN dict} |->
     IF IntKey(k[2]) \in DOMAIN dict THEN dict[IntKey(k[2])] ELSE dict[k]]

\* ---------------------------------------------------------------- defaults
_get_initial_weight(num) ==
  IF num \in {1, 9} THEN FP(8, 10)
  ELSE IF num \in {2, 8} THEN FP(9, 10)
  ELSE IF num \in {3, 7} THEN FP(12, 10)
  ELSE FP(15, 10)

DefaultTileWeights == [t \in AllTiles |-> _get_initial_weight(Num(t))]

DefaultPositionWeights ==
  [k \in {IntKey(n) : n \in 1..9} |->
     IF k[2] \in {1, 9} THEN FP(-2, 1)
     ELSE IF k[2] \in {2, 8} THEN FP(-1, 1)
     ELSE FP(1, 1)]

DefaultBePonged ==
  [k \in {IntKey(n) : n \in 0..2} |->
     IF k[2] = 0 THEN FP(8, 1) ELSE IF k[2] = 1 THEN FP(4, 1) ELSE 0]

DefaultRiskFactors ==
  [be_eaten |-> FP(2, 1), be_ponged |-> DefaultBePonged, be_konged |-> FP(4, 1),
   be_winning_tile |-> FP(10, 1), already_discarded |-> FP(-5, 1)]

DefaultValueFactors ==
  [four_of_a_kind |-> FP(20, 1), three_of_a_kind |-> FP(15, 1), pair |-> FP(10, 1),
   sequence |-> FP(5, 1), single |-> FP(1, 1)]

\* the snapshot file mahjong_weights.json: kind says what os.path.exists and
\* json.load make of it
\*   "absent"  there is no file
\*   "json"    a JSON object; the tables it has are fields of the record
\*   "text"    text that is not JSON: json.load raises JSONDecodeError
\*   "array"   JSON that is not an object, e.g. []: data.get raises
\*             AttributeError
\*   "bytes"   bytes that are not UTF-8: file.read raises UnicodeDecodeError
NoFile == [kind |-> "absent"]

\* ------------------------------------------------------------- persistence
\* what json.load reads back from what _save_weights wrote
_save_weights(self) ==
  [self EXCEPT !.file =
     [kind |-> "json",
      tile_weights |-> self.tile_weights,
      position_weights |-> JsonKeys(self.position_weights),
      risk_factors |-> [self.risk_factors EXCEPT
                          !.be_ponged = JsonKeys(self.risk_factors.be_ponged)],
      value_factors |-> self.value_factors]]

\* data.get(key, default): the table of the file if it has one
_load_weights(self) ==
  LET data == self.file
  IN  IF data.kind = "json"
      THEN [self EXCEPT
              !.tile_weights = IF "tile_weights" \in DOMAIN data
                               THEN data.tile_weights ELSE self.tile_weights,
              !.position_weights = IF "position_weights" \in DOMAIN data
                                   THEN data.position_weights ELSE self.position_weights,
              !.risk_factors = IF "risk_factors" \in DOMAIN data
                               THEN data.risk_factors ELSE self.risk_factors,
              !.value_factors = IF "value_factors" \in DOMAIN data
                                THEN data.value_factors ELSE self.value_factors]
      ELSE self

\* the exceptions of _load_weights that its except clause does not name
_load_weights_raises(file) == file.kind \in {"array", "bytes"}

\* MahjongAI(): the defaults, then the snapshot
__init__(impl, file) ==
  _load_weights(
    [impl |-> impl, file |-> file,
     discard_pile |-> <<>>, my_discards |-> <<>>, my_hand |-> <<>>,
     new_tile |-> NoTile, last_discarded_tile |-> NoTile,
     tile_weights |-> DefaultTileWeights,
     position_weights |-> DefaultPositionWeights,
     risk_factors |-> DefaultRiskFactors,
     value_factors |-> DefaultValueFactors])

\* --------------------------------------------------------------- valuation
\* update_state without `if new_tile: self.my_hand.append(new_tile)`
update_state_without_draw(self, discard_pile, my_discards, my_hand, new_tile) ==
  [self EXCEPT !.discard_pile = discard_pile,
               !.my_discards = my_discards,
               !.my_hand = my_hand,
               !.new_tile = new_tile]

update_state(self, discard_pile, my_discards, my_hand, new_tile) ==
  [self EXCEPT !.discard_pile = discard_pile,
               !.my_discards = my_discards,
               !.my_hand = IF new_tile # NoTile THEN Append(my_hand, new_tile)
                           ELSE my_hand,
               !.new_tile = new_tile]

get_positional_weight(self, tile) == Get(self.position_weights, IntKey(Num(tile)))

\* mahjong_ai.py looks the count up in {-5: 0, -2: 1}; major.py tests it
get_remaining_weight(self, tile) ==
  LET discard_count == Count(self.discard_pile, tile)
      table == [k \in {-5, -2} |-> IF k = -5 THEN 0 ELSE FP(1, 1)]
  IN  IF self.impl = "mahjong_ai"
      THEN IF discard_count \in DOMAIN table THEN table[discard_count] ELSE 0
      ELSE IF discard_count = 0 THEN FP(-5, 1)
           ELSE IF discard_count = 1 THEN FP(-2, 1)
           ELSE 0

is_part_of_sequence(self, tile) ==
  \E offset \in {-1, 0, 1} :
     /\ In(self.my_hand, Tile(Num(tile) + offset, Type(tile)))
     /\ Tile(Num(tile) + offset, Type(tile)) # tile

\* the key of value_factors that evaluate_tile_value uses
Category(self, tile) ==
  LET count == Count(self.my_hand, tile)
  IN  IF count = 4 THEN "four_of_a_kind"
      ELSE IF count = 3 THEN "three_of_a_kind"
      ELSE IF count = 2 THEN "pair"
      ELSE IF is_part_of_sequence(self, tile) THEN "sequence"
      ELSE "single"

evaluate_tile_value(self, tile) ==
  LET combined_weight == self.tile_weights[tile] + get_remaining_weight(self, tile)
  IN  Prod(self.value_factors[Category(self, tile)], combined_weight)
        + get_positional_weight(self, tile)

\* -------------------------------------------------------------------- risk
is_potential_win_tile(self, tile) ==
  \/ Count(self.discard_pile, tile) >= 2
  \/ \E offset \in {-2, -1, 1, 2} :
        In(self.discard_pile, Tile(Num(tile) + offset, Type(tile)))

\* RawRisk with be_eaten added once however many of the three ranks are in the
\* pile
RawRisk_eaten_once(self, tile) ==
  LET rf == self.risk_factors
      discard_count == Count(self.discard_pile, tile)
  IN  (IF \E offset \in {-1, 0, 1} :
             In(self.discard_pile, Tile(Num(tile) + offset, Type(tile)))
       THEN rf.be_eaten ELSE 0)
      + Get(rf.be_ponged, IntKey(discard_count))
      + (IF discard_count = 0 THEN rf.be_konged ELSE 0)
      + (IF is_potential_win_tile(self, tile) THEN rf.be_winning_tile ELSE 0)
      + (IF In(self.my_discards, tile) THEN rf.already_discarded ELSE 0)

\* the sum evaluate_tile_risk builds before it floors it
RawRisk(self, tile) ==
  LET rf == self.risk_factors
      discard_count == Count(self.discard_pile, tile)
      eaten == Cardinality({offset \in {-1, 0, 1} :
                 In(self.discard_pile, Tile(Num(tile) + offset, Type(tile)))})
  IN  eaten * rf.be_eaten
      + Get(rf.be_ponged, IntKey(discard_count))
      + (IF discard_count = 0 THEN rf.be_konged ELSE 0)
      + (IF is_potential_win_tile(self, tile) THEN rf.be_winning_tile ELSE 0)
      + (IF In(self.my_discards, tile) THEN rf.already_discarded ELSE 0)

ClampRisk(x) == Clamp(FP(-10, 1), x, FP(20, 1))

\* `for key in self.risk_factors`: every scalar and every be_ponged entry is
\* multiplied by p / 10
ScaleRisks(rf, p) ==
  [be_eaten |-> MulF(rf.be_eaten, p),
   be_ponged |-> [k \in DOMAIN rf.be_ponged |-> MulF(rf.be_ponged[k], p)],
   be_konged |-> MulF(rf.be_konged, p),
   be_winning_tile |-> MulF(rf.be_winning_tile, p),
   already_discarded |-> MulF(rf.already_discarded, p)]

\* every scalar and every be_ponged entry is clamped to [-10, 20]
ClampRisks(rf) ==
  [be_eaten |-> ClampRisk(rf.be_eaten),
   be_ponged |-> [k \in DOMAIN rf.be_ponged |-> ClampRisk(rf.be_ponged[k])],
   be_konged |-> ClampRisk(rf.be_konged),
   be_winning_tile |-> ClampRisk(rf.be_winning_tile),
   already_discarded |-> ClampRisk(rf.already_discarded)]

\* _adjust_risk_factors with the two thresholds counted in: >= 10 and <= 5
_adjust_risk_factors_inclusive(self, risk) ==
  LET p == IF risk >= FP(10, 1) THEN 11 ELSE IF risk <= FP(5, 1) THEN 9 ELSE 10
  IN  _save_weights([self EXCEPT !.risk_factors =
                       ClampRisks(ScaleRisks(self.risk_factors, p))])

\* _adjust_risk_factors without its closing self._save_weights()
_adjust_risk_factors_unsaved(self, risk) ==
  LET p == IF risk > FP(10, 1) THEN 11 ELSE IF risk < FP(5, 1) THEN 9 ELSE 10
  IN  [self EXCEPT !.risk_factors = ClampRisks(ScaleRisks(self.risk_factors, p))]

\* mahjong_ai.py: one clamped product per entry, the factor 1 included;
\* major.py: a product in the two outer branches only, then a clamp of every
\* entry
_adjust_risk_factors(self, risk) ==
  LET p == IF risk > FP(10, 1) THEN 11 ELSE IF risk < FP(5, 1) THEN 9 ELSE 10
      adjusted == IF self.impl = "mahjong_ai"
                  THEN ClampRisks(ScaleRisks(self.risk_factors, p))
                  ELSE ClampRisks(IF p = 10 THEN self.risk_factors
                                  ELSE ScaleRisks(self.risk_factors, p))
  IN  _save_weights([self EXCEPT !.risk_factors = adjusted])

\* self after the call, the value returned and the sum before the floor
evaluate_tile_risk(self, tile) ==
  LET risk == RawRisk(self, tile)
  IN  [self |-> _adjust_risk_factors(self, risk), ret |-> Max2(risk, 0), raw |-> risk]

\* --------------------------------------------------------------- selection
\* the list of (tile, score) pairs, built left to right over my_hand; each
\* risk evaluation tunes the risk factors the next one reads
RECURSIVE Scores(_, _, _)
Scores(self, i, acc) ==
  IF i > Len(self.my_hand) THEN [self |-> self, scores |-> acc]
  ELSE LET tile == self.my_hand[i]
           value == evaluate_tile_value(self, tile)
           r == evaluate_tile_risk(self, tile)
       IN  Scores(r.self, i + 1, Append(acc, <<tile, value - r.ret>>))

\* PyMin with <= for <: the last of the smallest
RECURSIVE PyMin_last(_, _, _)
PyMin_last(scores, i, best) ==
  IF i > Len(scores) THEN scores[best]
  ELSE PyMin_last(scores, i + 1, IF scores[i][2] <= scores[best][2] THEN i ELSE best)

\* min(scores, key=...): the first of the smallest
RECURSIVE PyMin(_, _, _)
PyMin(scores, i, best) ==
  IF i > Len(scores) THEN scores[best]
  ELSE PyMin(scores, i + 1, IF scores[i][2] < scores[best][2] THEN i ELSE best)

\* list.sort(key=...): stable, an element goes after its equals
RECURSIVE SortInsert(_, _)
SortInsert(sorted, x) ==
  IF sorted = <<>> THEN <<x>>
  ELSE IF x[2] < sorted[1][2] THEN <<x>> \o sorted
  ELSE <<sorted[1]>> \o SortInsert(Tail(sorted), x)

RECURSIVE PySort(_, _, _)
PySort(scores, i, sorted) ==
  IF i > Len(scores) THEN sorted
  ELSE PySort(scores, i + 1, SortInsert(sorted, scores[i]))

\* the choice among the scored candidates
Pick(impl, scores) ==
  IF impl = "mahjong_ai" THEN PyMin(scores, 2, 1)[1]
  ELSE PySort(scores, 1, <<>>)[1][1]

\* choose_tile_to_discard that wants a second candidate to compare with
choose_tile_to_discard_needing_two(self) ==
  LET s == Scores(self, 1, <<>>)
  IN  IF Len(self.my_hand) < 2
      THEN [self |-> self, ok |-> FALSE, ret |-> NoTile, scores |-> <<>>]
      ELSE [self |-> s.self, ok |-> TRUE, ret |-> Pick(self.impl, s.scores),
            scores |-> s.scores]

\* an empty hand raises ValueError (min of an empty list) in mahjong_ai.py and
\* IndexError (candidates[0]) in major.py, after no evaluation at all
choose_tile_to_discard(self) ==
  LET s == Scores(self, 1, <<>>)
  IN  IF self.my_hand = <<>>
      THEN [self |-> self, ok |-> FALSE, ret |-> NoTile, scores |-> <<>>]
      ELSE [self |-> s.self, ok |-> TRUE, ret |-> Pick(self.impl, s.scores),
            scores |-> s.scores]

\* --------------------------------------------------------------- lifecycle
\* play without my_hand.remove
play_keeping_hand(self, discard_pile, my_discards, my_hand, new_tile) ==
  LET c == choose_tile_to_discard(
             update_state(self, discard_pile, my_discards, my_hand, new_tile))
  IN  IF ~c.ok THEN c
      ELSE [c EXCEPT !.self =
              [c.self EXCEPT !.my_discards = Append(c.self.my_discards, c.ret),
                             !.last_discarded_tile = c.ret]]

play(self, discard_pile, my_discards, my_hand, new_tile) ==
  LET c == choose_tile_to_discard(
             update_state(self, discard_pile, my_discards, my_hand, new_tile))
  IN  IF ~c.ok THEN c
      ELSE [c EXCEPT !.self =
              [c.self EXCEPT !.my_hand = Remove(c.self.my_hand, c.ret),
                             !.my_discards = Append(c.self.my_discards, c.ret),
                             !.last_discarded_tile = c.ret]]

\* ----------------------------------------------------------- reinforcement
ClampValue(x) == Clamp(FP(5, 10), x, FP(3, 1))
ClampTile(x) == Clamp(FP(5, 10), x, FP(2, 1))
ClampPosition(x) == Clamp(FP(-3, 1), x, FP(3, 1))

\* the categories update_experience rewards or punishes for the tile
Applies(self, tile, key) ==
  LET count == Count(self.my_hand, tile) + 1
  IN  \/ key = "four_of_a_kind" /\ count >= 4
      \/ key = "three_of_a_kind" /\ count >= 3
      \/ key = "pair" /\ count >= 2
      \/ key = "sequence" /\ is_part_of_sequence(self, tile)

\* mahjong_ai.py clamps the factors it multiplies; major.py multiplies, then
\* clamps all five
_update_value_factors(self, tile, p) ==
  [self EXCEPT !.value_factors =
     [key \in DOMAIN self.value_factors |->
        IF self.impl = "mahjong_ai"
        THEN IF Applies(self, tile, key)
             THEN ClampValue(MulF(self.value_factors[key], p))
             ELSE self.value_factors[key]
        ELSE ClampValue(IF Applies(self, tile, key)
                        THEN MulF(self.value_factors[key], p)
                        ELSE self.value_factors[key])]]

\* the tiles of the loop `for offset in [-1, 0, 1]` that pass 1 <= num <= 9
Adjacent(tile) ==
  {Tile(Num(tile) + offset, Type(tile)) : offset \in {-1, 0, 1}} \cap AllTiles

\* _update_tile_weights with the test `factor > 1` the wrong way round
_update_tile_weights_inverted(self, tile, p) ==
  LET q == IF p < 10 THEN 12 ELSE 8
      r == IF p < 10 THEN 11 ELSE 9
      w == self.tile_weights
  IN  [self EXCEPT !.tile_weights =
         [t \in DOMAIN w |->
            IF t = tile THEN ClampTile(MulF(ClampTile(MulF(w[t], q)), r))
            ELSE IF t \in Adjacent(tile) THEN ClampTile(MulF(w[t], r))
            ELSE w[t]]]

\* the tile takes 1.2 (0.8), then it and its neighbours take 1.1 (0.9);
\* mahjong_ai.py clamps after each product, major.py clamps the tile alone,
\* at the end
_update_tile_weights(self, tile, p) ==
  LET q == IF p > 10 THEN 12 ELSE 8
      r == IF p > 10 THEN 11 ELSE 9
      w == self.tile_weights
  IN  [self EXCEPT !.tile_weights =
         [t \in DOMAIN w |->
            IF self.impl = "mahjong_ai"
            THEN IF t = tile THEN ClampTile(MulF(ClampTile(MulF(w[t], q)), r))
                 ELSE IF t \in Adjacent(tile) THEN ClampTile(MulF(w[t], r))
                 ELSE w[t]
            ELSE IF t = tile THEN ClampTile(MulF(MulF(w[t], q), r))
                 ELSE IF t \in Adjacent(tile) THEN MulF(w[t], r)
                 ELSE w[t]]]

_update_position_weights(self, num, p) ==
  [self EXCEPT !.position_weights =
     Put(self.position_weights, IntKey(num),
         ClampPosition(MulF(Get(self.position_weights, IntKey(num)), p)))]

\* the inverse sense: 0.9 after a win, 1.1 after a loss
_update_risk_factors(self, p) ==
  [self EXCEPT !.risk_factors =
     ClampRisks(ScaleRisks(self.risk_factors, IF p > 10 THEN 9 ELSE 11))]

\* update_experience that forgets the discard once it has learnt from it
update_experience_consuming(self, is_winning) ==
  LET tile == self.last_discarded_tile
      p == IF is_winning THEN 11 ELSE 9
  IN  IF tile = NoTile THEN self
      ELSE [_save_weights(
              _update_risk_factors(
                _update_position_weights(
                  _update_tile_weights(
                    _update_value_factors(self, tile, p), tile, p), Num(tile), p), p))
            EXCEPT !.last_discarded_tile = NoTile]

\* update_experience that writes the snapshot before it looks for the discard
update_experience_saving_first(self, is_winning) ==
  LET tile == self.last_discarded_tile
      p == IF is_winning THEN 11 ELSE 9
  IN  IF tile = NoTile THEN _save_weights(self)
      ELSE _save_weights(
             _update_risk_factors(
               _update_position_weights(
                 _update_tile_weights(
                   _update_value_factors(self, tile, p), tile, p), Num(tile), p), p))

update_experience(self, is_winning) ==
  LET tile == self.last_discarded_tile
      p == IF is_winning THEN 11 ELSE 9
  IN  IF tile = NoTile THEN self
      ELSE _save_weights(
             _update_risk_factors(
               _update_position_weights(
                 _update_tile_weights(
                   _update_value_factors(self, tile, p), tile, p), Num(tile), p), p))

\* ------------------------------------------------------------------ inputs
\* what a caller passes to update_state and play
Obs(pile, own, hand, new) ==
  [discard_pile |-> pile, my_discards |-> own, my_hand |-> hand, new_tile |-> new]

\* hand = [1万,1万,1万,1万,5条,9筒]
KongHand ==
  <<Tile(1, "wan"), Tile(1, "wan"), Tile(1, "wan"), Tile(1, "wan"),
    Tile(5, "tiao"), Tile(9, "tong")>>

\* 5条 twice and 6条 once
PongPile == <<Tile(5, "tiao"), Tile(5, "tiao"), Tile(6, "tiao")>>

\* 1万 and 1筒 once each: both score the same and the risk stays untuned
TiePile == <<Tile(1, "wan"), Tile(1, "tong")>>

Observations ==
  { \* the concealed kong
    Obs(<<>>, <<>>, KongHand, NoTile),
    \* two tiles of equal score, in both orders
    Obs(TiePile, <<>>, <<Tile(1, "wan"), Tile(1, "tong")>>, NoTile),
    Obs(TiePile, <<>>, <<Tile(1, "tong"), Tile(1, "wan")>>, NoTile),
    \* a sequence in hand against the pile of the pong scenario
    Obs(PongPile, <<>>, <<Tile(5, "tiao"), Tile(6, "tiao")>>, NoTile),
    \* nothing in hand and nothing drawn
    Obs(<<Tile(9, "tong")>>, <<Tile(2, "wan")>>, <<>>, NoTile),
    \* one tile, the one drawn; it lies twice in the pile and was discarded
    \* before
    Obs(PongPile, <<Tile(5, "tiao")>>, <<>>, Tile(5, "tiao")),
    \* a pair and a sequence; 2万 three times in the pile and once discarded
    Obs(<<Tile(2, "wan"), Tile(2, "wan"), Tile(2, "wan"), Tile(3, "wan")>>,
        <<Tile(2, "wan")>>, <<Tile(1, "wan"), Tile(2, "wan")>>, Tile(2, "wan")),
    \* three of a kind, one copy in the pile, one discarded before
    Obs(<<Tile(1, "wan")>>, <<Tile(1, "wan")>>,
        <<Tile(1, "wan"), Tile(1, "wan"), Tile(1, "wan")>>, NoTile) }

\* the tiles whose risk is asked for directly
RiskTiles == {Tile(2, "wan"), Tile(5, "tiao")}

\* the two modules that define class MahjongAI
Impls == {"mahjong_ai", "major"}

\* mahjong_weights.json when the program starts: absent, or the snapshot an earlier
\* run wrote with the default tables
StartFiles == {NoFile, _save_weights(__init__("mahjong_ai", NoFile)).file}

\* a snapshot written by hand that sets the risk factors alone:
\* {"risk_factors": {"be_eaten": 2.5, "be_ponged": {"0": 19.0, "1": 4.0, "2": 0},
\*  "be_konged": 4.0, "be_winning_tile": 5.0, "already_discarded": -5.0}}
TunedFile ==
  [kind |-> "json",
   risk_factors |-> [be_eaten |-> FP(25, 10),
                     be_ponged |-> [k \in {StrKey(n) : n \in 0..2} |->
                                      IF k[2] = 0 THEN FP(19, 1)
                                      ELSE IF k[2] = 1 THEN FP(4, 1) ELSE 0],
                     be_konged |-> FP(4, 1), be_winning_tile |-> FP(5, 1),
                     already_discarded |-> FP(-5, 1)]]

\* mahjong_weights.json as somebody other than the program left it
SnapshotFiles == {[kind |-> "text"], [kind |-> "array"], [kind |-> "bytes"], TunedFile}

\* ------------------------------------------------------------------- state
\* the engine object's fields and the snapshot file; call and ret are the
\* last call and what it returned, pre is the engine and the call before it,
\* ops lists the calls made since the first construction, each with the kind
\* of its return, started is the snapshot file the first construction found
VARIABLES impl, file, discard_pile, my_discards, my_hand, new_tile,
          last_discarded_tile, tile_weights, position_weights, risk_factors,
          value_factors, call, ret, pre, ops, started

vars == <<impl, file, discard_pile, my_discards, my_hand, new_tile,
          last_discarded_tile, tile_weights, position_weights, risk_factors,
          value_factors, call, ret, pre, ops, started>>

steps == Len(ops)

\* the engine object
Self ==
  [impl |-> impl, file |-> file, discard_pile |-> discard_pile,
   my_discards |-> my_discards, my_hand |-> my_hand, new_tile |-> new_tile,
   last_discarded_tile |-> last_discarded_tile, tile_weights |-> tile_weights,
   position_weights |-> position_weights, risk_factors |-> risk_factors,
   value_factors |-> value_factors]

\* the engine object becomes s
Becomes(s) ==
  /\ impl' = s.impl
  /\ file' = s.file
  /\ discard_pile' = s.discard_pile
  /\ my_discards' = s.my_discards
  /\ my_hand' = s.my_hand
  /\ new_tile' = s.new_tile
  /\ last_discarded_tile' = s.last_discarded_tile
  /\ tile_weights' = s.tile_weights
  /\ position_weights' = s.position_weights
  /\ risk_factors' = s.risk_factors
  /\ value_factors' = s.value_factors

\* a call: its name and arguments
Call(op, tile, is_winning, obs) ==
  [op |-> op, tile |-> tile, is_winning |-> is_winning, obs |-> obs]

NoObs == Obs(<<>>, <<>>, <<>>, NoTile)

\* what a call returned: a tile, a risk, nothing, or an exception
Ret(kind, tile, value) == [kind |-> kind, tile |-> tile, value |-> value]

Returned(c) == IF c.ok THEN Ret("tile", c.ret, 0) ELSE Ret("error", NoTile, 0)

\* MahjongAI() returns the object, or the exception of _load_weights reaches
\* the caller
Built(f) == IF _load_weights_raises(f) THEN Ret("error", NoTile, 0)
            ELSE Ret("none", NoTile, 0)

\* there is an engine object: the last construction did not raise
Constructed == ~(call.op = "__init__" /\ ret.kind = "error")

\* the program starts and constructs its engine over the file f
Start(f) ==
  LET s == __init__(impl, f)
  IN  /\ file = s.file
      /\ discard_pile = s.discard_pile
      /\ my_discards = s.my_discards
      /\ my_hand = s.my_hand
      /\ new_tile = s.new_tile
      /\ last_discarded_tile = s.last_discarded_tile
      /\ tile_weights = s.tile_weights
      /\ position_weights = s.position_weights
      /\ risk_factors = s.risk_factors
      /\ value_factors = s.value_factors
      /\ pre = [self |-> s, call |-> Call("none", NoTile, FALSE, NoObs)]
      /\ started = f
      /\ call = Call("__init__", NoTile, FALSE, NoObs)
      /\ ret = Built(f)
      /\ ops = <<>>

Init ==
  /\ impl \in Impls
  /\ \E f \in StartFiles : Start(f)

\* the program starts over a snapshot it did not write itself
InitSnapshot ==
  /\ impl \in Impls
  /\ \E f \in SnapshotFiles : Start(f)

\* ----------------------------------------------------------------- actions
\* the call c is made on the engine, returns r and leaves the engine as s
Called(c, r, s) ==
  /\ Constructed
  /\ Becomes(s)
  /\ call' = c
  /\ ret' = r
  /\ pre' = [self |-> Self, call |-> call]
  /\ ops' = Append(ops, <<c.op, r.kind>>)
  /\ UNCHANGED started

UpdateState ==
  /\ steps < MaxSteps
  /\ \E o \in Observations :
        Called(Call("update_state", NoTile, FALSE, o), Ret("none", NoTile, 0),
               update_state(Self, o.discard_pile, o.my_discards, o.my_hand, o.new_tile))

ChooseTileToDiscard ==
  /\ steps < MaxSteps
  /\ LET c == choose_tile_to_discard(Self)
     IN  Called(Call("choose_tile_to_discard", NoTile, FALSE, NoObs), Returned(c), c.self)

EvaluateTileRisk ==
  /\ steps < MaxSteps
  /\ \E tile \in RiskTiles :
        LET r == evaluate_tile_risk(Self, tile)
        IN  Called(Call("evaluate_tile_risk", tile, FALSE, NoObs),
                   Ret("risk", NoTile, r.ret), r.self)

Play ==
  /\ steps < MaxSteps
  /\ \E o \in Observations :
        LET c == play(Self, o.discard_pile, o.my_discards, o.my_hand, o.new_tile)
        IN  Called(Call("play", NoTile, FALSE, o), Returned(c), c.self)

UpdateExperience ==
  /\ steps < MaxSteps
  /\ \E is_winning \in BOOLEAN :
        Called(Call("update_experience", NoTile, is_winning, NoObs),
               Ret("none", NoTile, 0), update_experience(Self, is_winning))

\* a new engine object is constructed over the snapshot the old one left
Construct ==
  /\ steps < MaxSteps
  /\ Called(Call("__init__", NoTile, FALSE, NoObs), Built(file), __init__(impl, file))

Next ==
  \/ UpdateState
  \/ ChooseTileToDiscard
  \/ EvaluateTileRisk
  \/ Play
  \/ UpdateExperience
  \/ Construct

Spec == Init /\ [][Next]_vars

\* the same calls on an engine that started over a foreign snapshot
SpecSnapshot == InitSnapshot /\ [][Next]_vars

\* ------------------------------------------------------------- the window
\* MahjongApp.run_ai: the four entries are read and play is called; an
\* exception is caught and shown.  The entries are the user's to edit, so
\* each click reads an arbitrary observation.
RunAi ==
  /\ steps < MaxClicks
  /\ \E o \in Observations :
        LET c == play(Self, o.discard_pile, o.my_discards, o.my_hand, o.new_tile)
        IN  Called(Call("play", NoTile, FALSE, o), Returned(c), c.self)

MarkWinning ==
  /\ steps < MaxClicks
  /\ Called(Call("update_experience", NoTile, TRUE, NoObs), Ret("none", NoTile, 0),
            update_experience(Self, TRUE))

MarkLosing ==
  /\ steps < MaxClicks
  /\ Called(Call("update_experience", NoTile, FALSE, NoObs), Ret("none", NoTile, 0),
            update_experience(Self, FALSE))

NextGui == RunAi \/ MarkWinning \/ MarkLosing

SpecGui == Init /\ [][NextGui]_vars

\* ------------------------------------------------------------- the trainer
\* one pass of the loop `for game in training_data`: update_state, the
\* engine's own choice, last_discarded_tile set from outside, update_experience
train_weights(self, game, is_winning) ==
  LET c == choose_tile_to_discard(
             update_state(self, game.discard_pile, game.my_discards, game.my_hand,
                          game.new_tile))
  IN  IF ~c.ok THEN c
      ELSE [c EXCEPT !.self =
              update_experience([c.self EXCEPT !.last_discarded_tile = c.ret],
                                is_winning)]

\* MahjongWeightTrainer works on the class of mahjong_ai.py; the ValueError of
\* an empty hand is none of the exceptions train_weights catches and ends the
\* program
TrainRound ==
  /\ steps < MaxGames
  /\ impl = "mahjong_ai"
  /\ ret.kind # "error"
  /\ \E game \in Observations, is_winning \in BOOLEAN :
        LET c == train_weights(Self, game, is_winning)
        IN  Called(Call("train_weights", NoTile, is_winning, game), Returned(c), c.self)

NextTrainer == TrainRound

SpecTrainer == Init /\ [][NextTrainer]_vars

\* ------------------------------------------------------------------ claims
\* the four weight tables of an engine
Tables(s) == <<s.tile_weights, s.position_weights, s.risk_factors, s.value_factors>>

Within(lo, x, hi) == lo <= x /\ x <= hi

\* the last call was update_experience on an engine with a discard to learn from
Reinforced == call.op = "update_experience" /\ pre.self.last_discarded_tile # NoTile

\* C1: from the built-in defaults and no snapshot, after any sequence of calls,
\* every tile weight lies in [0.5, 2.0], every position weight in [-3, 3],
\* every risk scalar and every be_ponged entry in [-10, 20]
C1_WeightsWithinBounds ==
  started = NoFile =>
    /\ \A t \in DOMAIN tile_weights : Within(FP(5, 10), tile_weights[t], FP(2, 1))
    /\ \A k \in DOMAIN position_weights :
          Within(FP(-3, 1), position_weights[k], FP(3, 1))
    /\ \A x \in {risk_factors.be_eaten, risk_factors.be_konged,
                 risk_factors.be_winning_tile, risk_factors.already_discarded} :
          Within(FP(-10, 1), x, FP(20, 1))
    /\ \A k \in DOMAIN risk_factors.be_ponged :
          Within(FP(-10, 1), risk_factors.be_ponged[k], FP(20, 1))

\* C2: after every update_experience that mutates weights, each of the five
\* value factors lies in [0.5, 3.0]
C2_ValueFactorsWithinBounds ==
  Reinforced =>
    \A key \in DOMAIN value_factors : Within(FP(5, 10), value_factors[key], FP(3, 1))

\* an engine constructed right after a save of the engine before it
LoadedAfterSave ==
  /\ steps > 0
  /\ call.op = "__init__"
  /\ pre.self.file.kind = "json"
  /\ pre.self.file = _save_weights(pre.self).file

\* C3: save then load reproduces the four tables key for key and value for
\* value, so position_weights[rank] and be_ponged[count] read as before
C3_SaveLoadRoundTrip ==
  LoadedAfterSave =>
    /\ Tables(Self) = Tables(pre.self)
    /\ \A rank \in 1..9 :
          Get(position_weights, IntKey(rank)) = Get(pre.self.position_weights, IntKey(rank))
    /\ \A count \in 0..2 :
          Get(risk_factors.be_ponged, IntKey(count))
            = Get(pre.self.risk_factors.be_ponged, IntKey(count))

\* C4: when tile_weights[LastDiscard] is within [0.5, 2.0], a winning
\* update_experience does not lower it and a losing one does not raise it
C4_ReinforceDirection ==
  LET tile == pre.self.last_discarded_tile
  IN  (Reinforced /\ Within(FP(5, 10), pre.self.tile_weights[tile], FP(2, 1))) =>
        IF call.is_winning
        THEN tile_weights[tile] >= pre.self.tile_weights[tile]
        ELSE tile_weights[tile] <= pre.self.tile_weights[tile]

\* a winning update lifted the tile's weight onto the upper clamp
C4_Witness ==
  /\ Reinforced
  /\ call.is_winning
  /\ pre.self.tile_weights[pre.self.last_discarded_tile] < FP(2, 1)
  /\ tile_weights[pre.self.last_discarded_tile] = FP(2, 1)

\* from the defaults: one play, then update_experience twice with the same flag
PlayedThenReinforcedTwice ==
  /\ ops = <<<<"play", "tile">>, <<"update_experience", "none">>,
             <<"update_experience", "none">>>>
  /\ call.is_winning = pre.call.is_winning

\* C5: the second of two update_experience calls in a row after one play keeps
\* LastDiscard and changes the weight tables again
C5_SecondReinforceShifts ==
  PlayedThenReinforcedTwice =>
    /\ last_discarded_tile # NoTile
    /\ last_discarded_tile = pre.self.last_discarded_tile
    /\ Tables(Self) # Tables(pre.self)

\* the second update met the upper clamp of the tile's weight and still moved it
C5_Witness ==
  /\ PlayedThenReinforcedTwice
  /\ call.is_winning
  /\ tile_weights[last_discarded_tile] = FP(2, 1)
  /\ pre.self.tile_weights[last_discarded_tile] < FP(2, 1)

\* the hand play works on: the hand passed in, with the new tile if there is one
Drawn(o) == IF o.new_tile # NoTile THEN Append(o.my_hand, o.new_tile) ELSE o.my_hand

\* C6: play returns a tile of hand + newTile; afterwards the hand has lost one
\* occurrence of it, ownDiscards has gained it at the end, LastDiscard is it
\* and discardPile is as passed
C6_PlayEffect ==
  (call.op = "play" /\ ret.kind = "tile") =>
    /\ In(Drawn(call.obs), ret.tile)
    /\ Len(my_hand) = Len(Drawn(call.obs)) - 1
    /\ \A t \in AllTiles :
          Count(my_hand, t) = Count(Drawn(call.obs), t) - (IF t = ret.tile THEN 1 ELSE 0)
    /\ my_discards = Append(call.obs.my_discards, ret.tile)
    /\ last_discarded_tile = ret.tile
    /\ discard_pile = call.obs.discard_pile

\* play discarded one of several copies of a tile and put it behind the
\* discards made before
C6_Witness ==
  /\ call.op = "play"
  /\ ret.kind = "tile"
  /\ Count(my_hand, ret.tile) >= 1
  /\ call.obs.my_discards # <<>>
  /\ my_discards[Len(my_discards)] = ret.tile

\* the engine choose_tile_to_discard ran on, and the scores it computed
Scored == IF call.op = "play"
          THEN update_state(pre.self, call.obs.discard_pile, call.obs.my_discards,
                            call.obs.my_hand, call.obs.new_tile)
          ELSE pre.self

ComputedScores == Scores(Scored, 1, <<>>).scores

Chose == call.op \in {"play", "choose_tile_to_discard"} /\ ret.kind = "tile"

\* C7: the tile returned has the least score value - risk of the hand, and
\* among the positions of least score it is the first
C7_FirstMinimum ==
  Chose =>
    \E i \in DOMAIN ComputedScores :
       /\ ComputedScores[i][1] = ret.tile
       /\ \A j \in DOMAIN ComputedScores : ComputedScores[j][2] >= ComputedScores[i][2]
       /\ \A j \in 1..(i - 1) : ComputedScores[j][2] > ComputedScores[i][2]

\* two different tiles tied for the least score
C7_Witness ==
  /\ Chose
  /\ \E i, j \in DOMAIN ComputedScores :
        /\ i < j
        /\ ComputedScores[i][1] # ComputedScores[j][1]
        /\ ComputedScores[i][2] = ComputedScores[j][2]
        /\ \A k \in DOMAIN ComputedScores : ComputedScores[k][2] >= ComputedScores[i][2]

\* the weights are the built-in defaults
DefaultWeights(s) ==
  Tables(s) = <<DefaultTileWeights, DefaultPositionWeights, DefaultRiskFactors,
                DefaultValueFactors>>

\* C8: default weights, hand [1万,1万,1万,1万,5条,9筒], nothing discarded: the
\* choice is 9筒, neither 1万 nor 5条
C8_KongScenario ==
  (/\ Chose
   /\ DefaultWeights(Scored)
   /\ Scored.my_hand = KongHand
   /\ Scored.discard_pile = <<>>
   /\ Scored.my_discards = <<>>) => ret.tile = Tile(9, "tong")

\* the sum of the five contributions, written from the claim
ExpectedRisk(s, tile) ==
  LET rf == s.risk_factors
      pile == s.discard_pile
      c == Count(pile, tile)
      Same(rank) == Tile(rank, Type(tile))
  IN  (IF In(pile, Same(Num(tile) - 1)) THEN rf.be_eaten ELSE 0)
      + (IF In(pile, Same(Num(tile))) THEN rf.be_eaten ELSE 0)
      + (IF In(pile, Same(Num(tile) + 1)) THEN rf.be_eaten ELSE 0)
      + (IF IntKey(c) \in DOMAIN rf.be_ponged THEN rf.be_ponged[IntKey(c)] ELSE 0)
      + (IF c = 0 THEN rf.be_konged ELSE 0)
      + (IF \/ c >= 2
            \/ In(pile, Same(Num(tile) - 2)) \/ In(pile, Same(Num(tile) - 1))
            \/ In(pile, Same(Num(tile) + 1)) \/ In(pile, Same(Num(tile) + 2))
         THEN rf.be_winning_tile ELSE 0)
      + (IF In(s.my_discards, tile) THEN rf.already_discarded ELSE 0)

\* C9: evaluate_tile_risk returns max(0, S), S the sum of the eaten, ponged,
\* konged, winning-tile and already-discarded contributions; it is never
\* negative
C9_RiskSum ==
  call.op = "evaluate_tile_risk" =>
    /\ ret.value = Max2(0, ExpectedRisk(pre.self, call.tile))
    /\ ret.value >= 0

\* 5条 twice and 6条 once in the pile: be_eaten twice, be_ponged[2] and
\* be_winning_tile make up the risk of 5条
C9_Witness ==
  /\ call.op = "evaluate_tile_risk"
  /\ call.tile = Tile(5, "tiao")
  /\ pre.self.discard_pile = PongPile
  /\ ret.value = 2 * pre.self.risk_factors.be_eaten
                   + pre.self.risk_factors.be_ponged[IntKey(2)]
                   + pre.self.risk_factors.be_winning_tile
  /\ ret.value > 0

\* C10: with LastDiscard unset, update_experience changes nothing: not the
\* weight tables, the hand, the discard lists or the snapshot
C10_ReinforceUnsetIsNoOp ==
  (call.op = "update_experience" /\ pre.self.last_discarded_tile = NoTile) =>
    Self = pre.self

\* update_experience came with no discard to learn from, on an engine that
\* holds a hand and has written its snapshot
C10_Witness ==
  /\ call.op = "update_experience"
  /\ pre.self.last_discarded_tile = NoTile
  /\ pre.self.my_hand # <<>>
  /\ pre.self.file.kind = "json"

\* the snapshot is missing or is not a JSON object
Malformed(f) == f.kind \in {"absent", "text", "array", "bytes"}

\* C11: constructing the engine over a missing or malformed snapshot raises
\* nothing and leaves the engine with the built-in defaults
C11_ConstructNeverRaises ==
  (call.op = "__init__" /\ Malformed(file)) =>
    /\ ret.kind # "error"
    /\ DefaultWeights(Self)

\* the snapshot is what a save of the engine as it is now writes
Persisted == file = _save_weights(Self).file

\* C12: when update_experience with LastDiscard set or evaluate_tile_risk has
\* returned, the snapshot holds the four tables as they are in memory;
\* whatever call changed a table, the change is in the snapshot at its return
C12_WriteThrough ==
  /\ (Reinforced \/ call.op = "evaluate_tile_risk") => Persisted
  /\ (steps > 0 /\ call.op # "__init__" /\ Tables(Self) # Tables(pre.self)) => Persisted

\* update_experience moved the tables and replaced an older snapshot
C12_Witness ==
  /\ Reinforced
  /\ Tables(Self) # Tables(pre.self)
  /\ pre.self.file.kind = "json"
  /\ file # pre.self.file
  /\ Persisted

\* C13: on a hand of exactly one tile the choice is that tile, whatever the
\* discard pile, the own discards and the weights
C13_SingleTile ==
  (call.op \in {"play", "choose_tile_to_discard"} /\ Len(Scored.my_hand) = 1) =>
    /\ ret.kind = "tile"
    /\ ret.tile = Scored.my_hand[1]

\* the only tile was chosen with copies of it in the pile and in the own
\* discards, by an engine whose weights had moved off the defaults
C13_Witness ==
  /\ Chose
  /\ Len(Scored.my_hand) = 1
  /\ ret.tile = Scored.my_hand[1]
  /\ In(Scored.discard_pile, ret.tile)
  /\ In(Scored.my_discards, ret.tile)
  /\ Scored.tile_weights # DefaultTileWeights
  /\ Scored.risk_factors # DefaultRiskFactors

\* remaining_weight as the claim gives it: -5, -2 or 0 for 0, 1 or more copies
\* of the tile in the discard pile
ExpectedRemaining(s, tile) ==
  LET copies == Count(s.discard_pile, tile)
  IN  IF copies = 0 THEN FP(-5, 1) ELSE IF copies = 1 THEN FP(-2, 1) ELSE 0

\* the category by the claim's priority
ExpectedCategory(s, tile) ==
  LET copies == Count(s.my_hand, tile)
  IN  IF copies = 4 THEN "four_of_a_kind"
      ELSE IF copies = 3 THEN "three_of_a_kind"
      ELSE IF copies = 2 THEN "pair"
      ELSE IF \/ In(s.my_hand, Tile(Num(tile) + 1, Type(tile)))
              \/ In(s.my_hand, Tile(Num(tile) - 1, Type(tile)))
           THEN "sequence"
      ELSE "single"

ExpectedValue(s, tile) ==
  Prod(s.value_factors[ExpectedCategory(s, tile)],
       s.tile_weights[tile] + ExpectedRemaining(s, tile))
    + Get(s.position_weights, IntKey(Num(tile)))

\* C14: the value choose_tile_to_discard computes for a tile of the hand is
\* category_factor * (tile_weights[tile] + remaining_weight(tile))
\* + position_weights[rank], remaining_weight being -5, -2, 0 for 0, 1, 2 or
\* more copies in the pile
C14_TileValue ==
  Chose =>
    \A i \in DOMAIN Scored.my_hand :
       evaluate_tile_value(Scored, Scored.my_hand[i])
         = ExpectedValue(Scored, Scored.my_hand[i])

\* the risk factors after an evaluation whose sum before the floor was S, as
\* the claim gives them
ExpectedTuned(rf, S) ==
  LET Tuned(x) == IF S > FP(10, 1) THEN MulF(x, 11)
                  ELSE IF S < FP(5, 1) THEN MulF(x, 9)
                  ELSE x
      Bounded(x) == Max2(FP(-10, 1), Min2(Tuned(x), FP(20, 1)))
  IN  [be_eaten |-> Bounded(rf.be_eaten),
       be_ponged |-> [k \in DOMAIN rf.be_ponged |-> Bounded(rf.be_ponged[k])],
       be_konged |-> Bounded(rf.be_konged),
       be_winning_tile |-> Bounded(rf.be_winning_tile),
       already_discarded |-> Bounded(rf.already_discarded)]

\* C15: evaluate_tile_risk tunes by the sum S before the floor: S > 10
\* multiplies every scalar and every be_ponged entry by 1.1, S < 5 by 0.9,
\* 5 <= S <= 10 leaves them; each is then clamped to [-10, 20]; the value
\* returned comes from the factors before the tuning
C15_SelfTuning ==
  call.op = "evaluate_tile_risk" =>
    LET S == ExpectedRisk(pre.self, call.tile)
    IN  /\ risk_factors = ExpectedTuned(pre.self.risk_factors, S)
        /\ ret.value = Max2(0, S)

\* the sum was exactly 10: nothing was tuned and 10 was returned
C15_Witness ==
  /\ call.op = "evaluate_tile_risk"
  /\ ExpectedRisk(pre.self, call.tile) = FP(10, 1)
  /\ risk_factors = pre.self.risk_factors
  /\ ret.value = FP(10, 1)

\* C16: update_experience with LastDiscard = t multiplies tile_weights[t] by
\* 1.2 (win) or 0.8 (loss) and each same-suit neighbour at rank +1 or -1 by
\* 1.1 or 0.9, clamps each result to [0.5, 2.0] and leaves every other tile
\* weight as it was
C16_TileWeightStep ==
  Reinforced =>
    LET t == pre.self.last_discarded_tile
        w == pre.self.tile_weights
        own == IF call.is_winning THEN 12 ELSE 8
        near == IF call.is_winning THEN 11 ELSE 9
        Neighbours == {Tile(Num(t) + 1, Type(t)), Tile(Num(t) - 1, Type(t))} \cap AllTiles
        Bounded(x) == Max2(FP(5, 10), Min2(x, FP(2, 1)))
    IN  \A x \in DOMAIN tile_weights :
           tile_weights[x] = IF x = t THEN Bounded(MulF(w[x], own))
                             ELSE IF x \in Neighbours THEN Bounded(MulF(w[x], near))
                             ELSE w[x]

\* the hands that hold the tiles of hand in some order
Orders(hand) ==
  LET Places == {p \in [DOMAIN hand -> DOMAIN hand] :
                   \A i, j \in DOMAIN hand : p[i] = p[j] => i = j}
  IN  {[i \in DOMAIN hand |-> hand[p[i]]] : p \in Places}

\* C17: the tile chosen does not depend on the order of the hand: the same
\* engine, with the same pile, own discards and weights, chooses the same tile
\* on every permutation of the hand
C17_HandOrder ==
  Chose =>
    \A hand \in Orders(Scored.my_hand) :
       choose_tile_to_discard([Scored EXCEPT !.my_hand = hand]).ret = ret.tile

\* the two lists hold the same tiles the same number of times
SameTiles(a, b) == \A t \in AllTiles : Count(a, t) = Count(b, t)

\* C18 as stated: update_state leaves the hand and ownDiscards as the caller
\* supplied them, choose_tile_to_discard and update_experience leave them as
\* they were; play alone changes them
C18_OnlyPlayMutates ==
  /\ call.op = "update_state" =>
        /\ SameTiles(my_hand, call.obs.my_hand)
        /\ my_discards = call.obs.my_discards
  /\ call.op \in {"choose_tile_to_discard", "update_experience"} =>
        /\ SameTiles(my_hand, pre.self.my_hand)
        /\ my_discards = pre.self.my_discards

\* C18 as amended: update_state puts the tile drawn, when there is one, at
\* the end of the hand supplied and stores ownDiscards as supplied;
\* choose_tile_to_discard, update_experience and evaluate_tile_risk change
\* neither
C18_HandFrame ==
  /\ call.op = "update_state" =>
        /\ my_hand = Drawn(call.obs)
        /\ my_discards = call.obs.my_discards
  /\ call.op \in {"choose_tile_to_discard", "update_experience", "evaluate_tile_risk"} =>
        /\ my_hand = pre.self.my_hand
        /\ my_discards = pre.self.my_discards

\* update_state took a hand of two and a drawn tile and left a hand of three
C18_Witness ==
  /\ call.op = "update_state"
  /\ call.obs.new_tile # NoTile
  /\ Len(call.obs.my_hand) = 2
  /\ my_hand = Append(call.obs.my_hand, call.obs.new_tile)
  /\ my_discards = call.obs.my_discards
  /\ my_discards # <<>>

\* the call before the last one was a play that returned a tile
AfterPlay ==
  /\ Len(ops) >= 2
  /\ ops[Len(ops) - 1] = <<"play", "tile">>

\* C19: when update_experience runs with LastDiscard set, after a play or in
\* a round of the trainer, the tile has left the hand, so that the count it
\* uses, occurrences in the hand + 1, is the number of copies held when the
\* tile was selected
C19_CountIsCopiesHeld ==
  /\ (Reinforced /\ AfterPlay) =>
        Count(pre.self.my_hand, pre.self.last_discarded_tile) + 1
          = Count(Drawn(pre.call.obs), pre.self.last_discarded_tile)
  /\ (call.op = "train_weights" /\ ret.kind = "tile") =>
        /\ last_discarded_tile = ret.tile
        /\ Count(my_hand, ret.tile) + 1 = Count(Drawn(call.obs), ret.tile)

====
